---- MODULE Spec2Model ----
(***************************************************************************)
(* A model of src/mongobject.py: the Mongobject facade over a MongoDB      *)
(* client handle.  The state is the facade's attributes (instance,         *)
(* database, collection), the handles it has opened, the documents stored  *)
(* in the server the handles talk to, and the outcome of the last call.    *)
(*                                                                         *)
(* The client handle is the pymongo MongoClient that _connect_database     *)
(* builds.  The facade uses it through the driver's methods (insert_one,   *)
(* replace_one, drop_database, ...) and as a mapping (keys(), in, item     *)
(* assignment, at lines 92, 101, 184 and 185).  MongoClient has the        *)
(* methods but not the mapping protocol: every mapping use raises          *)
(* TypeError.  The code behind the existence check is modelled as written, *)
(* and no behaviour reaches it.                                            *)
(*                                                                         *)
(* Documents carry the identifier and one field, a.  A filter is the set   *)
(* of values of a it accepts.  Spec is the facade after construction, with *)
(* its operations and an external writer to the same server; SpecLife is   *)
(* construction, set_instance and teardown.                                *)
(***************************************************************************)
EXTENDS Integers, Sequences, FiniteSets

VARIABLES
    phase,      \* "new" before __init__, "live", "failed" (__init__ raised), "dead" after __del__
    handles,    \* every handle the facade opened: <<[how, ssl, open]>>
    instance,   \* self.instance: an index into handles, 0 while the attribute is not set
    database,   \* self.database: a name, or Unset while the attribute is not set
    collection, \* self.collection: a name, or Unset while the attribute is not set
    dbs,        \* names of the databases that exist in the server
    colls,      \* <<database, collection>> pairs that exist in the server
    docs,       \* [<<database, collection>> -> sequence of documents], in natural order
    nextId,     \* the next identifier the server generates
    fresh,      \* TRUE until a setter or a create call has run
    last        \* what the last step did: the operation, its outcome, facts of its pre-state

vars == <<phase, handles, instance, database, collection, dbs, colls, docs,
          nextId, fresh, last>>

----------------------------------------------------------------------------
(* Bounds of the model. *)
MaxHandles == 3     \* handles opened over the facade's life
MaxIter == 2        \* replace_one calls of the replace loop the model follows

(* Python values. *)
None == "<None>"
Unset == "<unset>"          \* an attribute that was never assigned
NoneKey == 0                \* None used as a key of find's result mapping
Falsy == {None, ""}

DbNames == {"d", "e"}
CollNames == {"c"}
Values == {0, 1}
Colls == DbNames \X CollNames

Doc(i, v) == [id |-> i, a |-> v]

(* Arguments the calls are tried with. *)
UriArgs == {None, "mongodb://h", "mongodb+srv://h"}
HostArgs == {None, "h"}
PortArgs == {None, "27017"}
AllFilter == Values                         \* the filter {}: every value of a matches
Filters == {AllFilter} \cup {{v} : v \in Values}   \* {v} stands for the filter {"a": v}

Ret(v) == [kind |-> "ret", val |-> v]
Raise(e) == [kind |-> "raise", val |-> e]
Returned(v) == last.out.kind = "ret" /\ last.out.val = v
Raised == last.out.kind = "raise"

(* The record of a step: the operation, its outcome, and what the claims   *)
(* need of its arguments and of the state it started in.                   *)
Step(op, out) == [op |-> op, out |-> out, arg |-> None, filter |-> AllFilter,
                  batch |-> FALSE, dbOk |-> FALSE, collOk |-> FALSE, changed |-> FALSE,
                  npre |-> 0, ntodo |-> 0, matched |-> 0, modified |-> 0, iters |-> 0,
                  matched0 |-> {}, value |-> 0]

----------------------------------------------------------------------------
(* _connect_database: which MongoClient call the arguments select.  The    *)
(* result is the handle to open, or a raise.                               *)
StartsWithMongodb(uri) == uri = "mongodb://h"
Truthy(x) == x \notin Falsy

ConnectDatabase(uri, host, port) ==
    IF uri # None /\ StartsWithMongodb(uri)
    THEN Ret([how |-> "uri", ssl |-> TRUE, open |-> TRUE])
    ELSE IF Truthy(host) /\ Truthy(port)
    THEN Ret([how |-> "hostport", ssl |-> TRUE, open |-> TRUE])
    ELSE IF Truthy(host) \/ Truthy(uri)
    THEN IF host = None
         THEN Raise("TypeError")     \* 'mongodb://' + None
         ELSE Ret([how |-> "hosturi", ssl |-> TRUE, open |-> TRUE])
    ELSE Ret([how |-> "default", ssl |-> TRUE, open |-> TRUE])

(* A set_instance or __del__ that forgets to close. *)
CloseLeak(hs, i) == hs

Close(hs, i) == [hs EXCEPT ![i].open = FALSE]

----------------------------------------------------------------------------
(* The server and what the selection resolves to in it. *)
EmptyDocs == [p \in Colls |-> <<>>]
Server == <<dbs, colls, docs, nextId>>
Sel == <<database, collection>>

DbExists == database # Unset /\ database \in dbs
CollExists == DbExists /\ collection # Unset /\ Sel \in colls
SelDocs == IF Sel \in Colls THEN docs[Sel] ELSE <<>>

Matches(doc, f) == doc.a \in f
MatchingIds(s, f) == {s[i].id : i \in {j \in 1..Len(s) : Matches(s[j], f)}}
NMatching(s, f) == Cardinality(MatchingIds(s, f))

(* A setter that clears the selection when given nothing. *)
SetNameClears(current, x) == IF Truthy(x) THEN x ELSE Unset

(* set_database / set_collection: the value the attribute holds afterwards. *)
SetName(current, x) == IF Truthy(x) THEN x ELSE current

(* self.instance.keys(): the attribute keys of a MongoClient resolves to    *)
(* the Database named "keys", and calling a Database raises TypeError.     *)
(* self.instance[database].keys() likewise calls the Collection "keys".    *)
ClientKeys == Raise("TypeError")
DatabaseKeys == Raise("TypeError")

(* db_name not in self.instance: MongoClient has no __contains__ and its   *)
(* __next__ raises TypeError (it is not iterable).                         *)
ClientContains(n) == Raise("TypeError")

(* _check_database.  self.database is read first (AttributeError while the *)
(* attribute is not set), then self.instance.keys() is called.             *)
CheckDatabase ==
    IF database = Unset THEN Raise("AttributeError")
    ELSE IF ClientKeys.kind = "raise" THEN ClientKeys
    ELSE Ret(database \in ClientKeys.val)

(* _check_collection *)
CheckCollection ==
    LET d == CheckDatabase IN
    IF d.kind = "raise" THEN d
    ELSE IF ~d.val THEN Ret(FALSE)
    ELSE IF collection = Unset THEN Raise("AttributeError")
    ELSE IF DatabaseKeys.kind = "raise" THEN DatabaseKeys
    ELSE Ret(collection \in DatabaseKeys.val)

----------------------------------------------------------------------------
(* Construction, reconfiguration and teardown. *)

Connected(r, uri, host, port) == [Step("connect", r) EXCEPT !.arg = <<uri, host, port>>]

(* __init__ *)
Construct(uri, host, port, db, coll) ==
    /\ phase = "new"
    /\ LET r == ConnectDatabase(uri, host, port) IN
       IF r.kind = "raise"
       THEN /\ phase' = "failed"
            /\ UNCHANGED <<handles, instance, database, collection>>
            /\ last' = Connected(r, uri, host, port)
       ELSE /\ phase' = "live"
            /\ handles' = Append(handles, r.val)
            /\ instance' = Len(handles) + 1
            /\ database' = IF Truthy(db) THEN db ELSE Unset
            /\ collection' = IF Truthy(coll) THEN coll ELSE Unset
            /\ last' = Connected(r, uri, host, port)
    /\ UNCHANGED <<Server, fresh>>

(* __del__: runs too on an object whose __init__ raised, where the read of *)
(* self.instance raises (the interpreter ignores the exception).           *)
Del ==
    /\ phase \in {"live", "failed"}
    /\ phase' = "dead"
    /\ IF instance = 0
       THEN /\ last' = Step("del", Raise("AttributeError"))
            /\ UNCHANGED handles
       ELSE /\ handles' = Close(handles, instance)
            /\ last' = Step("del", Ret(None))
    /\ UNCHANGED <<instance, database, collection, Server, fresh>>

(* set_instance *)
SetInstance(uri, host, port) ==
    /\ phase = "live"
    /\ Len(handles) < MaxHandles
    /\ LET closed == Close(handles, instance)
           r == ConnectDatabase(uri, host, port) IN
       IF r.kind = "raise"
       THEN /\ handles' = closed
            /\ UNCHANGED instance
            /\ last' = Connected(r, uri, host, port)
       ELSE /\ handles' = Append(closed, r.val)
            /\ instance' = Len(handles) + 1
            /\ last' = Connected(r, uri, host, port)
    /\ UNCHANGED <<phase, database, collection, Server, fresh>>

InitLife ==
    /\ phase = "new"
    /\ handles = <<>>
    /\ instance = 0
    /\ database = Unset
    /\ collection = Unset
    /\ dbs = {} /\ colls = {} /\ docs = EmptyDocs /\ nextId = 1
    /\ fresh = TRUE
    /\ last = Step("none", Ret(None))

NextLife ==
    \/ \E u \in UriArgs, h \in HostArgs, p \in PortArgs, d \in {None, "d"}, c \in {None, "c"} :
          Construct(u, h, p, d, c)
    \/ \E u \in UriArgs, h \in HostArgs, p \in PortArgs : SetInstance(u, h, p)
    \/ Del

SpecLife == InitLife /\ [][NextLife]_vars

----------------------------------------------------------------------------
(* The driver calls the data operations forward to, on the sequence s of   *)
(* the collection's documents.  Each gives the documents afterwards and    *)
(* the counts of the driver's result object.                               *)

FirstMatch(s, f) ==
    IF \E i \in 1..Len(s) : Matches(s[i], f)
    THEN CHOOSE i \in 1..Len(s) : Matches(s[i], f) /\ \A j \in 1..(i - 1) : ~Matches(s[j], f)
    ELSE 0

RemoveAt(s, i) == SubSeq(s, 1, i - 1) \o SubSeq(s, i + 1, Len(s))

RECURSIVE SetAll(_, _, _)
SetAll(s, f, v) ==
    IF s = <<>> THEN <<>>
    ELSE <<IF Matches(Head(s), f) THEN [Head(s) EXCEPT !.a = v] ELSE Head(s)>>
         \o SetAll(Tail(s), f, v)

RECURSIVE Keep(_, _)
Keep(s, f) ==
    IF s = <<>> THEN <<>>
    ELSE (IF Matches(Head(s), f) THEN <<>> ELSE <<Head(s)>>) \o Keep(Tail(s), f)

(* replace_one(filter, replacement, upsert): at most one document matches. *)
ReplaceOne(s, f, v, upsert, id) ==
    LET i == FirstMatch(s, f) IN
    IF i # 0
    THEN [docs |-> [s EXCEPT ![i].a = v], matched |-> 1,
          modified |-> IF s[i].a # v THEN 1 ELSE 0, upserted |-> FALSE]
    ELSE IF upsert
    THEN [docs |-> Append(s, Doc(id, v)), matched |-> 0, modified |-> 0, upserted |-> TRUE]
    ELSE [docs |-> s, matched |-> 0, modified |-> 0, upserted |-> FALSE]

(* update_one(filter, {"$set": {"a": v}}, upsert) *)
UpdateOne(s, f, v, upsert, id) ==
    LET i == FirstMatch(s, f) IN
    IF i # 0
    THEN [docs |-> [s EXCEPT ![i].a = v], matched |-> 1,
          modified |-> IF s[i].a # v THEN 1 ELSE 0, upserted |-> FALSE]
    ELSE IF upsert
    THEN [docs |-> Append(s, Doc(id, v)), matched |-> 0, modified |-> 0, upserted |-> TRUE]
    ELSE [docs |-> s, matched |-> 0, modified |-> 0, upserted |-> FALSE]

(* update_many(filter, {"$set": {"a": v}}, upsert) *)
UpdateMany(s, f, v, upsert, id) ==
    IF NMatching(s, f) > 0
    THEN [docs |-> SetAll(s, f, v), matched |-> NMatching(s, f),
          modified |-> Cardinality({i \in 1..Len(s) : Matches(s[i], f) /\ s[i].a # v}),
          upserted |-> FALSE]
    ELSE IF upsert
    THEN [docs |-> Append(s, Doc(id, v)), matched |-> 0, modified |-> 0, upserted |-> TRUE]
    ELSE [docs |-> s, matched |-> 0, modified |-> 0, upserted |-> FALSE]

(* delete_one(filter), delete_many(filter) *)
DeleteOne(s, f) ==
    LET i == FirstMatch(s, f) IN
    IF i # 0 THEN [docs |-> RemoveAt(s, i), deleted |-> 1]
    ELSE [docs |-> s, deleted |-> 0]

DeleteMany(s, f) == [docs |-> Keep(s, f), deleted |-> NMatching(s, f)]

(* The booleans the facade makes of the driver's counts. *)
OneModified(res) == res.modified = 1
AllModified(res) == res.modified = res.matched
AnyDeleted(res) == res.deleted > 0

(* The exits of replace's while True loop after one replace_one:           *)
(* "true", "false", or "again" when neither return is taken.               *)
ReplaceLoopExit(res) ==
    IF res.matched = res.modified THEN "true"
    ELSE IF res.modified = 0 THEN "false"
    ELSE "again"

----------------------------------------------------------------------------
(* The facade's operations on a constructed object. *)

Live == phase = "live"
Passes(c) == c.kind = "ret" /\ c.val

(* The facts of the state a call starts in. *)
Facts(op, f) ==
    [Step(op, Ret(None)) EXCEPT !.filter = f, !.dbOk = DbExists, !.collOk = CollExists,
                                !.npre = NMatching(SelDocs, f),
                                !.matched0 = MatchingIds(SelDocs, f)]

(* What a call that stops at the existence check gives: the raise, or the  *)
(* operation's failure value.                                              *)
Refused(op, f, c, failure) ==
    [Facts(op, f) EXCEPT !.out = IF c.kind = "raise" THEN c ELSE Ret(failure)]

(* set_database, set_collection *)
SetDatabase(x) ==
    /\ Live
    /\ database' = SetName(database, x)
    /\ fresh' = FALSE
    /\ last' = [Facts("set_database", AllFilter) EXCEPT !.arg = x]
    /\ UNCHANGED <<phase, handles, instance, collection, Server>>

SetCollection(x) ==
    /\ Live
    /\ collection' = SetName(collection, x)
    /\ fresh' = FALSE
    /\ last' = [Facts("set_collection", AllFilter) EXCEPT !.arg = x]
    /\ UNCHANGED <<phase, handles, instance, database, Server>>

(* create_database.  The item assignment of line 185 would raise          *)
(* TypeError too (MongoClient has no __setitem__).                         *)
CreateDatabase(n) ==
    /\ Live
    /\ fresh' = FALSE
    /\ IF ~Truthy(n)
       THEN /\ last' = [Facts("create_database", AllFilter) EXCEPT !.arg = n]
            /\ UNCHANGED <<database, dbs>>
       ELSE IF ClientContains(n).kind = "raise"
       THEN /\ last' = [Facts("create_database", AllFilter) EXCEPT
                           !.arg = n, !.out = ClientContains(n)]
            /\ UNCHANGED <<database, dbs>>
       ELSE IF ClientContains(n).val
       THEN /\ last' = [Facts("create_database", AllFilter) EXCEPT !.arg = n]
            /\ UNCHANGED <<database, dbs>>
       ELSE /\ last' = [Facts("create_database", AllFilter) EXCEPT
                           !.arg = n, !.out = Raise("TypeError")]
            /\ UNCHANGED <<database, dbs>>
    /\ UNCHANGED <<phase, handles, instance, collection, colls, docs, nextId>>

(* drop_database *)
DropDatabase ==
    /\ Live
    /\ LET c == CheckDatabase IN
       IF Passes(c)
       THEN /\ dbs' = dbs \ {database}
            /\ colls' = {p \in colls : p[1] # database}
            /\ docs' = [p \in Colls |-> IF p[1] = database THEN <<>> ELSE docs[p]]
            /\ database' = SetName(database, None)
            /\ collection' = SetName(collection, None)
            /\ last' = [Facts("drop_database", AllFilter) EXCEPT !.changed = TRUE]
       ELSE /\ last' = Refused("drop_database", AllFilter, c, None)
            /\ UNCHANGED <<database, collection, dbs, colls, docs>>
    /\ UNCHANGED <<phase, handles, instance, nextId, fresh>>

(* create_collection: the driver raises for a name that is not a string    *)
(* (TypeError), is empty (InvalidName) or is taken (CollectionInvalid).    *)
CreateCollection(n) ==
    /\ Live
    /\ fresh' = FALSE
    /\ LET c == CheckDatabase
           F == [Facts("create_collection", AllFilter) EXCEPT !.arg = n] IN
       IF ~Passes(c)
       THEN /\ last' = [F EXCEPT !.out = IF c.kind = "raise" THEN c ELSE Ret(None)]
            /\ UNCHANGED <<collection, colls>>
       ELSE IF n = None
       THEN /\ last' = [F EXCEPT !.out = Raise("TypeError")]
            /\ UNCHANGED <<collection, colls>>
       ELSE IF n = ""
       THEN /\ last' = [F EXCEPT !.out = Raise("InvalidName")]
            /\ UNCHANGED <<collection, colls>>
       ELSE IF <<database, n>> \in colls
       THEN /\ last' = [F EXCEPT !.out = Raise("CollectionInvalid")]
            /\ UNCHANGED <<collection, colls>>
       ELSE /\ colls' = colls \cup {<<database, n>>}
            /\ collection' = SetName(collection, n)
            /\ last' = [F EXCEPT !.changed = TRUE]
    /\ UNCHANGED <<phase, handles, instance, database, dbs, docs, nextId>>

(* drop_collection *)
DropCollection ==
    /\ Live
    /\ LET c == CheckCollection IN
       IF Passes(c)
       THEN /\ colls' = colls \ {Sel}
            /\ docs' = [docs EXCEPT ![Sel] = <<>>]
            /\ collection' = SetName(collection, None)
            /\ last' = [Facts("drop_collection", AllFilter) EXCEPT !.changed = TRUE]
       ELSE /\ last' = Refused("drop_collection", AllFilter, c, None)
            /\ UNCHANGED <<collection, colls, docs>>
    /\ UNCHANGED <<phase, handles, instance, database, dbs, nextId, fresh>>

----------------------------------------------------------------------------
(* insert.  data is None, a dict {"a": v} or a list of such dicts. *)
InsertArgs ==
    {[kind |-> "none", vals |-> <<>>], [kind |-> "list", vals |-> <<>>],
     [kind |-> "list", vals |-> <<0, 1>>]}
    \cup {[kind |-> k, vals |-> <<v>>] : k \in {"dict", "list"}, v \in Values}

DataTruthy(data) == data.kind # "none" /\ data.vals # <<>>

RECURSIVE InsertMany(_, _, _)
InsertMany(s, vals, id) ==
    IF vals = <<>> THEN s
    ELSE InsertMany(Append(s, Doc(id, Head(vals))), Tail(vals), id + 1)

Insert(data) ==
    /\ Live
    /\ LET c == CheckCollection
           F == [Facts("insert", AllFilter) EXCEPT !.value = Len(data.vals)] IN
       IF ~DataTruthy(data)
       THEN /\ last' = [F EXCEPT !.out = Ret(FALSE)]
            /\ UNCHANGED <<docs, nextId>>
       ELSE IF ~Passes(c)
       THEN /\ last' = [F EXCEPT !.out = IF c.kind = "raise" THEN c ELSE Ret(FALSE)]
            /\ UNCHANGED <<docs, nextId>>
       ELSE /\ docs' = [docs EXCEPT ![Sel] =
                          IF data.kind = "list" /\ Len(data.vals) > 1
                          THEN InsertMany(@, data.vals, nextId)
                          ELSE Append(@, Doc(nextId, data.vals[1]))]
            /\ nextId' = nextId + Len(data.vals)
            /\ last' = [F EXCEPT !.out = Ret(TRUE), !.changed = TRUE]
    /\ UNCHANGED <<phase, handles, instance, database, collection, dbs, colls,
                   fresh>>

(* replace's while True loop from its n-th iteration: replace_one, then   *)
(* the two returns.  Gives the documents afterwards, the value returned,   *)
(* the counts of the last replace_one and the number of replace_one calls. *)
RECURSIVE ReplaceLoop(_, _, _, _, _, _)
ReplaceLoop(s, f, v, upsert, id, n) ==
    LET res == ReplaceOne(s, f, v, upsert, id)
        exit == ReplaceLoopExit(res) IN
    IF exit = "again" /\ n < MaxIter
    THEN ReplaceLoop(res.docs, f, v, upsert, IF res.upserted THEN id + 1 ELSE id, n + 1)
    ELSE [docs |-> res.docs, ret |-> (exit = "true"), matched |-> res.matched,
          modified |-> res.modified, upserted |-> res.upserted, calls |-> n]

(* Matching documents that differ from the replacement. *)
NToReplace(s, f, v) == Cardinality({i \in 1..Len(s) : Matches(s[i], f) /\ s[i].a # v})

(* replace *)
Replace(f, v, upsert, only_one) ==
    /\ Live
    /\ LET c == CheckCollection
           F == [Facts("replace", f) EXCEPT !.batch = ~only_one, !.value = v,
                                            !.ntodo = NToReplace(SelDocs, f, v)] IN
       IF ~Passes(c)
       THEN /\ last' = [F EXCEPT !.out = IF c.kind = "raise" THEN c ELSE Ret(FALSE)]
            /\ UNCHANGED <<docs, nextId>>
       ELSE IF only_one
       THEN LET res == ReplaceOne(docs[Sel], f, v, upsert, nextId) IN
            /\ docs' = [docs EXCEPT ![Sel] = res.docs]
            /\ nextId' = IF res.upserted THEN nextId + 1 ELSE nextId
            /\ last' = [F EXCEPT !.out = Ret(OneModified(res)), !.matched = res.matched,
                                 !.modified = res.modified, !.iters = 1,
                                 !.changed = res.docs # docs[Sel]]
       ELSE LET res == ReplaceLoop(docs[Sel], f, v, upsert, nextId, 1) IN
            /\ docs' = [docs EXCEPT ![Sel] = res.docs]
            /\ nextId' = IF res.upserted THEN nextId + 1 ELSE nextId
            /\ last' = [F EXCEPT !.out = Ret(res.ret), !.matched = res.matched,
                                 !.modified = res.modified, !.iters = res.calls,
                                 !.changed = res.docs # docs[Sel]]
    /\ UNCHANGED <<phase, handles, instance, database, collection, dbs, colls, fresh>>

(* update, with the update document {"$set": {"a": v}} *)
Update(f, v, upsert, only_one) ==
    /\ Live
    /\ LET c == CheckCollection
           F == [Facts("update", f) EXCEPT !.batch = ~only_one, !.value = v] IN
       IF ~Passes(c)
       THEN /\ last' = [F EXCEPT !.out = IF c.kind = "raise" THEN c ELSE Ret(FALSE)]
            /\ UNCHANGED <<docs, nextId>>
       ELSE LET res == IF only_one THEN UpdateOne(docs[Sel], f, v, upsert, nextId)
                       ELSE UpdateMany(docs[Sel], f, v, upsert, nextId) IN
            /\ docs' = [docs EXCEPT ![Sel] = res.docs]
            /\ nextId' = IF res.upserted THEN nextId + 1 ELSE nextId
            /\ last' = [F EXCEPT !.out = Ret(IF only_one THEN OneModified(res)
                                             ELSE AllModified(res)),
                                 !.matched = res.matched, !.modified = res.modified,
                                 !.changed = res.docs # docs[Sel]]
    /\ UNCHANGED <<phase, handles, instance, database, collection, dbs, colls,
                   fresh>>

(* delete *)
Delete(f, only_one) ==
    /\ Live
    /\ LET c == CheckCollection
           F == [Facts("delete", f) EXCEPT !.batch = ~only_one] IN
       IF ~Passes(c)
       THEN /\ last' = [F EXCEPT !.out = IF c.kind = "raise" THEN c ELSE Ret(FALSE)]
            /\ UNCHANGED docs
       ELSE LET res == IF only_one THEN DeleteOne(docs[Sel], f) ELSE DeleteMany(docs[Sel], f) IN
            /\ docs' = [docs EXCEPT ![Sel] = res.docs]
            /\ last' = [F EXCEPT !.out = Ret(AnyDeleted(res)),
                                 !.matched = IF only_one /\ F.npre > 0 THEN 1 ELSE F.npre,
                                 !.modified = res.deleted,
                                 !.changed = res.docs # docs[Sel]]
    /\ UNCHANGED <<phase, handles, instance, database, collection, dbs, colls,
                   nextId, fresh>>

----------------------------------------------------------------------------
(* find.  The find options are assigned as locals of __init__, so the      *)
(* class has no attribute FIND and the first comparison of find_option     *)
(* raises AttributeError.                                                  *)
FIND == 1
ClassHasFindOptions == FALSE
FindOptions == {0, FIND}          \* 0 is the default, find_option=False

Put(m, k, v) == {p \in m : p[1] # k} \cup {<<k, v>>}

(* The loop over the cursor: dic is res itself, so del dic['_id'] removes  *)
(* the identifier before res.get('_id') reads it, and every entry is keyed *)
(* None.  The mapping is a set of <<key, fields>> pairs.                   *)
RECURSIVE ProcessResult(_, _)
ProcessResult(s, m) ==
    IF s = <<>> THEN m
    ELSE ProcessResult(Tail(s), Put(m, NoneKey, Head(s).a))

RECURSIVE Select(_, _)
Select(s, f) ==
    IF s = <<>> THEN <<>>
    ELSE (IF Matches(Head(s), f) THEN <<Head(s)>> ELSE <<>>) \o Select(Tail(s), f)

Find(f, opt) ==
    /\ Live
    /\ LET c == CheckCollection
           F == [Facts("find", f) EXCEPT !.value = opt] IN
       last' = IF ~Passes(c) THEN [F EXCEPT !.out = IF c.kind = "raise" THEN c ELSE Ret({})]
               ELSE IF ~ClassHasFindOptions THEN [F EXCEPT !.out = Raise("AttributeError")]
               ELSE IF opt = FIND
               THEN [F EXCEPT !.out = Ret(ProcessResult(Select(docs[Sel], f), {}))]
               ELSE [F EXCEPT !.out = Ret({})]
    /\ UNCHANGED <<phase, handles, instance, database, collection, Server,
                   fresh>>

(* count *)
Count(f) ==
    /\ Live
    /\ LET c == CheckCollection
           F == Facts("count", f) IN
       last' = IF ~Passes(c) THEN [F EXCEPT !.out = IF c.kind = "raise" THEN c ELSE Ret(-1)]
               ELSE [F EXCEPT !.out = Ret(NMatching(docs[Sel], f))]
    /\ UNCHANGED <<phase, handles, instance, database, collection, Server,
                   fresh>>

(* distinct("a", filter): the distinct values of a, in ascending order *)
RECURSIVE Ascending(_)
Ascending(S) ==
    IF S = {} THEN <<>>
    ELSE LET m == CHOOSE x \in S : \A y \in S : x <= y IN <<m>> \o Ascending(S \ {m})

Distinct(f) ==
    /\ Live
    /\ LET c == CheckCollection
           F == Facts("distinct", f)
           s == docs[Sel] IN
       last' = IF ~Passes(c) THEN [F EXCEPT !.out = IF c.kind = "raise" THEN c ELSE Ret(<<>>)]
               ELSE [F EXCEPT !.out =
                        Ret(Ascending({s[i].a : i \in {j \in 1..Len(s) : Matches(s[j], f)}}))]
    /\ UNCHANGED <<phase, handles, instance, database, collection, Server,
                   fresh>>

(* Another client of the same server writes a field of a stored document,  *)
(* between the facade's calls.                                             *)
ExternalWrite ==
    /\ phase = "live"
    /\ \E p \in colls, v \in Values :
          \E i \in 1..Len(docs[p]) :
             /\ docs[p][i].a # v
             /\ docs' = [docs EXCEPT ![p][i].a = v]
    /\ last' = Step("external", Ret(None))
    /\ UNCHANGED <<phase, handles, instance, database, collection, dbs, colls,
                   nextId, fresh>>

----------------------------------------------------------------------------
(* The state after Mongobject(database=db, collection=coll): the default   *)
(* connection is open.  The server is empty, or already holds database d   *)
(* with collection c and two documents.                                    *)
Init ==
    /\ phase = "live"
    /\ handles = <<ConnectDatabase(None, None, None).val>>
    /\ instance = 1
    /\ database \in {Unset, "d"}
    /\ collection \in {Unset, "c"}
    /\ \/ dbs = {} /\ colls = {} /\ docs = EmptyDocs /\ nextId = 1
       \/ /\ dbs = {"d"}
          /\ colls = {<<"d", "c">>}
          /\ docs = [EmptyDocs EXCEPT ![<<"d", "c">>] = <<Doc(1, 0), Doc(2, 0)>>]
          /\ nextId = 3
    /\ fresh = TRUE
    /\ last = Step("none", Ret(None))

Next ==
    \/ \E x \in DbNames \cup Falsy : SetDatabase(x)
    \/ \E x \in CollNames \cup Falsy : SetCollection(x)
    \/ \E n \in DbNames \cup Falsy : CreateDatabase(n)
    \/ DropDatabase
    \/ \E n \in CollNames \cup Falsy : CreateCollection(n)
    \/ DropCollection
    \/ \E data \in InsertArgs : Insert(data)
    \/ \E f \in Filters, v \in Values, u \in BOOLEAN, o \in BOOLEAN : Replace(f, v, u, o)
    \/ \E f \in Filters, v \in Values, u \in BOOLEAN, o \in BOOLEAN : Update(f, v, u, o)
    \/ \E f \in Filters, o \in BOOLEAN : Delete(f, o)
    \/ \E f \in Filters, opt \in FindOptions : Find(f, opt)
    \/ \E f \in Filters : Count(f)
    \/ \E f \in Filters : Distinct(f)
    \/ ExternalWrite

Spec == Init /\ [][Next]_vars

----------------------------------------------------------------------------
(* The claims. *)

DataOps == {"insert", "replace", "update", "delete", "find", "count", "distinct"}

(* The failure value of the last operation was returned. *)
ReturnedFailure ==
    /\ last.op \in {"insert", "replace", "update", "delete"} => Returned(FALSE)
    /\ last.op = "find" => Returned({})
    /\ last.op = "count" => Returned(-1)
    /\ last.op = "distinct" => Returned(<<>>)

(* C1: a data operation called while the selected database or collection   *)
(* does not exist returns its failure value and leaves the documents       *)
(* unchanged.                                                              *)
C1_NoOpUnlessSelected ==
    (last.op \in DataOps /\ ~last.collOk) => (ReturnedFailure /\ ~last.changed)

(* C2: on a facade constructed with no database and no collection, before  *)
(* any setter or create call, every data operation returns its failure     *)
(* value without raising.                                                  *)
C2_FreshFacadeFailsQuietly ==
    (last.op \in DataOps /\ fresh /\ database = Unset /\ collection = Unset)
        => (~Raised /\ ReturnedFailure)

(* C3: after drop_database on an existing selected database the selected   *)
(* database and collection names are cleared; after drop_collection on an  *)
(* existing selected collection the selected collection name is cleared.   *)
Cleared(name) == name \in {Unset, None}

C3_DropClearsSelection ==
    /\ (last.op = "drop_database" /\ last.dbOk) => (Cleared(database) /\ Cleared(collection))
    /\ (last.op = "drop_collection" /\ last.collOk) => Cleared(collection)

(* C4: set_database(x) and set_collection(x) with x None or empty leave    *)
(* the selected names, the connection handle and the stored data           *)
(* unchanged.                                                              *)
C4_FalsySetterIsNoOp ==
    [][(last'.op \in {"set_database", "set_collection"} /\ last'.arg \in Falsy)
          => UNCHANGED <<database, collection, instance, handles, dbs, colls, docs>>]_vars

C4_Witness ==
    /\ last.op \in {"set_database", "set_collection"}
    /\ last.arg \in Falsy
    /\ database # Unset
    /\ collection # Unset

Reference(s, f) == {<<s[i].id, s[i].a>> : i \in {j \in 1..Len(s) : Matches(s[j], f)}}

C6_FindPlainMatchesReference ==
    (last.op = "find" /\ last.value = FIND /\ last.collOk)
        => Returned(Reference(SelDocs, last.filter))

(* C8: at most one handle the facade opened is open at any point, and      *)
(* after teardown every handle it opened is closed.                        *)
OpenHandles == {i \in 1..Len(handles) : handles[i].open}

C8_OneOpenHandle ==
    /\ Cardinality(OpenHandles) <= 1
    /\ phase = "dead" => OpenHandles = {}

C8_Witness ==
    /\ phase = "dead"
    /\ Len(handles) >= 2
    /\ OpenHandles = {}

(* C9: for every combination of present and absent uri, host and port the  *)
(* connection opens, over SSL, by the precedence: the URI when given, else *)
(* host and port, else the host alone, else the default.                   *)
Precedence(uri, host, port) ==
    IF uri # None THEN "uri"
    ELSE IF host # None /\ port # None THEN "hostport"
    ELSE IF host # None THEN "hosturi"
    ELSE "default"

C9_ConnectByPrecedence ==
    last.op = "connect"
        => /\ last.out.kind = "ret"
           /\ last.out.val.ssl
           /\ last.out.val.how = Precedence(last.arg[1], last.arg[2], last.arg[3])

====
